---- MODULE Spec2Model ----
(***************************************************************************)
(* gosocksv5d: a SOCKS v5 server.                                          *)
(*                                                                         *)
(* Spec        one accepted connection: sockConn.handle, i.e. handshake,   *)
(*             connect (request, candidate loop, success reply) and the    *)
(*             two copyFrom tasks of the relay.                            *)
(* ServerSpec  the server: ListenAndServe control loops, their accept      *)
(*             goroutines, Stop, Continue and the three setters.           *)
(* ShuffleSpec one call of shuffleResolver.LookupIP.                       *)
(*                                                                         *)
(* Bytes are naturals 0..255, byte slices are sequences, a nil slice is    *)
(* the empty sequence.                                                     *)
(***************************************************************************)
EXTENDS Integers, Sequences, FiniteSets, TLC

----------------------------------------------------------------------------
\* Bounds of the model.

\* capacity of the copy buffer (1 << 16 in the source, scaled down)
bufSize == 3
\* largest nmethods for which the handshakes carry every method list
MaxMethods == 2
\* longest address list a resolver returns
MaxCands == 2
\* ListenAndServe calls on the one server
NLoops == 2
\* listeners opened in one run
MaxListens == 3
\* connections that arrive in one run
MaxConns == 2
\* calls of Stop and Continue in one run
MaxCalls == 2
\* capacity of the intake channel (10 in the source, scaled down)
connChanCap == 1
\* temporary accept errors in one run
MaxAcceptErrs == 1
\* longest address list handed to the shuffling resolver
MaxShuffle == 3

----------------------------------------------------------------------------
\* Protocol constants.

protoVersion == 5

atypeIPV4 == 1
atypeIPV6 == 4
atypeDomain == 3

cmdConnect == 1
cmdBind == 2

repSuccess == 0
repFailure == 1
repNotAllowed == 2
repHostUnreachable == 4
repNotSupported == 7
repNotAddressable == 8

\* the method byte "no authentication" and the answer "no acceptable method"
methodNoAuth == 0
methodNone == 255

DenyConnection == 0
AllowConnection == 1

----------------------------------------------------------------------------
\* Byte-slice helpers.

Min(a, b) == IF a < b THEN a ELSE b

Zeros(n) == [i \in 1..n |-> 0]

Take(s, n) == SubSeq(s, 1, n)

Drop(s, n) == SubSeq(s, n + 1, Len(s))

\* bytes.IndexByte(s, c) >= 0
ContainsByte(s, c) == \E i \in 1..Len(s) : s[i] = c

Prefixes(s) == { Take(s, n) : n \in 0..Len(s) }

----------------------------------------------------------------------------
\* net.IP: a slice of 4 or 16 bytes.

v4InV6Prefix == <<0, 0, 0, 0, 0, 0, 0, 0, 0, 0, 255, 255>>

IPv4(a, b, c, d) == v4InV6Prefix \o <<a, b, c, d>>

To4(ip) ==
    IF Len(ip) = 4 THEN ip
    ELSE IF Len(ip) = 16 /\ Take(ip, 12) = v4InV6Prefix THEN Drop(ip, 12)
    ELSE <<>>

To16(ip) ==
    IF Len(ip) = 4 THEN IPv4(ip[1], ip[2], ip[3], ip[4])
    ELSE IF Len(ip) = 16 THEN ip
    ELSE <<>>

IPEqual(a, b) == To16(a) # <<>> /\ To16(a) = To16(b)

IPv6loopback == Zeros(15) \o <<1>>
IPv6zero == Zeros(16)
IPv4zero == IPv4(0, 0, 0, 0)
IPv4bcast == IPv4(255, 255, 255, 255)

IsUnspecified(ip) == IPEqual(ip, IPv4zero) \/ IPEqual(ip, IPv6zero)

IsLoopback(ip) ==
    IF To4(ip) # <<>> THEN To4(ip)[1] = 127 ELSE IPEqual(ip, IPv6loopback)

IsMulticast(ip) ==
    IF To4(ip) # <<>> THEN To4(ip)[1] \div 16 = 14
    ELSE Len(ip) = 16 /\ ip[1] = 255

IsLinkLocalUnicast(ip) ==
    IF To4(ip) # <<>> THEN To4(ip)[1] = 169 /\ To4(ip)[2] = 254
    ELSE Len(ip) = 16 /\ ip[1] = 254 /\ ip[2] \div 64 = 2

IsGlobalUnicast(ip) ==
    /\ Len(ip) \in {4, 16}
    /\ ~IPEqual(ip, IPv4bcast)
    /\ ~IsUnspecified(ip)
    /\ ~IsLoopback(ip)
    /\ ~IsMulticast(ip)
    /\ ~IsLinkLocalUnicast(ip)

\* net.IPNet with a mask of whole bytes: the first `bytes' bytes are the net
IPNetContains(n, ip) ==
    LET x == IF Len(n.ip) = 4 THEN To4(ip)
             ELSE IF To4(ip) # <<>> THEN <<>> ELSE To16(ip)
    IN  x # <<>> /\ Take(x, n.bytes) = Take(n.ip, n.bytes)

\* net.InterfaceAddrs() of the host: lo (127.0.0.1/8, ::1/128) and
\* a LAN interface 192.168.1.5/24
InterfaceAddrs ==
    { [ip |-> <<127, 0, 0, 1>>, bytes |-> 1],
      [ip |-> <<192, 168, 1, 5>>, bytes |-> 3],
      [ip |-> IPv6loopback, bytes |-> 16] }

\* defaultRuler.ConnectionAllowed; ifErr: net.InterfaceAddrs() failed
ConnectionAllowedSwapped(requestee, requested, ifErr) ==
    IF ~IsGlobalUnicast(requested) THEN AllowConnection
    ELSE IF ifErr THEN AllowConnection
    ELSE IF \E n \in InterfaceAddrs : IPNetContains(n, requested)
         THEN AllowConnection
    ELSE DenyConnection

ConnectionAllowed(requestee, requested, ifErr) ==
    IF ~IsGlobalUnicast(requested) THEN DenyConnection
    ELSE IF ifErr THEN DenyConnection
    ELSE IF \E n \in InterfaceAddrs : IPNetContains(n, requested)
         THEN DenyConnection
    ELSE AllowConnection

----------------------------------------------------------------------------
\* The inputs of one connection.

ipLoop == <<127, 0, 0, 1>>
ipLan == <<192, 168, 1, 9>>
ipPub == <<8, 8, 8, 8>>
ip6Pub == <<32, 1, 13, 184>> \o Zeros(11) \o <<1>>

\* the listen address handed to ListenAndServe
LocalIPs == {IPv4zero, IPv6zero}

MethodBytes == {methodNoAuth, 2}

\* [ver][nmethods][methods]; the last one announces 255 methods
Handshakes ==
    {<<4, 1, methodNoAuth>>, <<protoVersion, 255>>}
    \cup UNION { { <<protoVersion, n>> \o m : m \in [1..n -> MethodBytes] }
                 : n \in 0..MaxMethods }

ReqAddrs(atyp) ==
    CASE atyp = atypeIPV4 -> {ipLoop, ipLan, ipPub}
      [] atyp = atypeIPV6 -> {IPv6loopback, ip6Pub}
      [] atyp = atypeDomain -> {<<1, 97>>}
      [] OTHER -> {<<>>}

\* port 80
PortBytes == <<0, 80>>

\* [ver][cmd][rsv][atyp][dst_addr][dst_port]
Requests ==
    {<<4, cmdConnect, 0, atypeIPV4>> \o ipPub \o PortBytes}
    \cup UNION { UNION { { <<protoVersion, cmd, 0, atyp>> \o a \o PortBytes
                           : a \in ReqAddrs(atyp) }
                         : atyp \in {atypeIPV4, atypeIPV6, atypeDomain, 9} }
                 : cmd \in {cmdConnect, cmdBind} }

\* what the client sends once the relay runs, and what the upstream sends
Payload == <<11, 12>>
UpPayload == <<21>>

\* what follows the last byte a peer sends: it closes its write side, it
\* stays silent (every read runs into the deadline), or the transport fails
EndKinds == {"eof", "timeout", "reset"}

\* A scenario is the bytes the client sends and the bytes the upstream sends.
\* The client may stop anywhere in the handshake or the request; the relay
\* carries data for one request.
Scenarios ==
    { [cin |-> s, uin |-> <<>>]
      : s \in UNION { Prefixes(h \o r) : h \in Handshakes, r \in Requests } }
    \cup
    { [cin |-> <<protoVersion, 1, methodNoAuth>>
               \o <<protoVersion, cmdConnect, 0, atypeIPV4>> \o ipPub
               \o PortBytes \o Payload,
       uin |-> UpPayload] }

\* the candidate addresses a resolver returns
CandIPs == {IPv4(127, 0, 0, 1), IPv4(8, 8, 8, 8), ip6Pub}

SeqsUpTo(S, n) == UNION { [1..k -> S] : k \in 0..n }

\* DNSResolver.LookupIP: (addrs, nil), (nil, err), or it panics
ResolverResults ==
    { [kind |-> "ok", addrs |-> l] : l \in SeqsUpTo(CandIPs, MaxCands) }
    \cup { [kind |-> "err", addrs |-> <<>>], [kind |-> "panic", addrs |-> <<>>] }

\* net.DialTCP: a connection, a dial error, or a net.InvalidAddrError
DialResults == {"ok", "refused", "invalid"}

Dirs == {"c2u", "u2c"}

----------------------------------------------------------------------------
VARIABLES
    pc, lip, cin, cend, uin, cout,
    hs, req, rips, ridx, port, lasterr,
    lookups, ruled, dialed, replies,
    csock, rsock, quitn,
    tpc, buf, nr, off, srcRead, dlv, timedOut, endedBy,
    sent, wrote, late

connVars == <<pc, lip, cin, cend, uin, cout, hs, req, rips, ridx, port,
              lasterr, lookups, ruled, dialed, replies, csock, rsock, quitn,
              tpc, buf, nr, off, srcRead, dlv, timedOut, endedBy,
              sent, wrote, late>>

\* the server
VARIABLES
    running, instances, lpc, lsn, conq, acc, cst, crashed,
    ctl, ncalls, lastOp, pausedAt, atCall, stops, logged,
    cfg, setLive, reg

\* the embedded DNSResolver, Logger and Ruler of the server, and whether a
\* setter has assigned one of them while a listener was open
cfgVars == <<cfg, setLive>>

srvVars == <<running, instances, lpc, lsn, conq, acc, cst, crashed,
             ctl, ncalls, lastOp, pausedAt, atCall, stops, logged,
             cfgVars, reg>>

\* one call of shuffleResolver.LookupIP: what the wrapped resolver returned,
\* the slice addrs, the loop variable n and the position in the call
VARIABLES sorig, saddrs, sn, spc

shufVars == <<sorig, saddrs, sn, spc>>

vars == <<connVars, srvVars, shufVars>>

----------------------------------------------------------------------------
\* Sockets.

OpenSock == [kind |-> "conn", rd |-> TRUE, wr |-> TRUE, open |-> TRUE]
NoSock == [kind |-> "none", rd |-> FALSE, wr |-> FALSE, open |-> FALSE]
\* a nil *net.TCPConn: every method answers EINVAL
NilSock == [kind |-> "nil", rd |-> FALSE, wr |-> FALSE, open |-> FALSE]

CloseRead(s) == IF s.kind = "conn" THEN [s EXCEPT !.rd = FALSE] ELSE s
CloseWrite(s) == IF s.kind = "conn" THEN [s EXCEPT !.wr = FALSE] ELSE s
Close(s) ==
    IF s.kind = "conn" THEN [s EXCEPT !.rd = FALSE, !.wr = FALSE, !.open = FALSE]
    ELSE s

----------------------------------------------------------------------------
\* sockConn.readAll on the client stream s that ends with `end':
\* io.ReadFull answers io.EOF when no byte at all arrived, and readAll then
\* returns the zeroed buffer; any other short read panics.
readAll(s, end, count) ==
    IF Len(s) >= count
    THEN [ok |-> TRUE, rv |-> Take(s, count), rest |-> Drop(s, count)]
    ELSE IF Len(s) = 0 /\ end = "eof"
    THEN [ok |-> TRUE, rv |-> Zeros(count), rest |-> <<>>]
    ELSE [ok |-> FALSE, rv |-> <<>>, rest |-> <<>>]

\* the connection variables other than the inputs, before handle runs
ConnFresh ==
    /\ cout = <<>>
    /\ hs = <<>>
    /\ req = <<>>
    /\ rips = <<>>
    /\ ridx = 0
    /\ port = 0
    /\ lasterr = "nil"
    /\ lookups = <<>>
    /\ ruled = <<>>
    /\ dialed = <<>>
    /\ replies = <<>>
    /\ csock = OpenSock
    /\ rsock = NoSock
    /\ quitn = 0
    /\ tpc = [d \in Dirs |-> "off"]
    /\ buf = [d \in Dirs |-> Zeros(bufSize)]
    /\ nr = [d \in Dirs |-> 0]
    /\ off = [d \in Dirs |-> 0]
    /\ srcRead = [d \in Dirs |-> <<>>]
    /\ dlv = [d \in Dirs |-> <<>>]
    /\ timedOut = [d \in Dirs |-> FALSE]
    /\ endedBy = [d \in Dirs |-> "none"]
    /\ wrote = <<>>
    /\ late = [d \in Dirs |-> 0]

ConnInit ==
    /\ pc = "handshake"
    /\ lip \in LocalIPs
    /\ \E sc \in Scenarios : cin = sc.cin /\ uin = sc.uin
    /\ cend \in EndKinds
    /\ sent = cin
    /\ ConnFresh

\* no connection is looked at
ConnIdle ==
    /\ pc = "idle"
    /\ lip = IPv4zero
    /\ cin = <<>>
    /\ uin = <<>>
    /\ cend = "eof"
    /\ sent = <<>>
    /\ ConnFresh

\* handle's deferred function once a panic unwinds out of handshake or
\* connect: sock.conn.Close(); rsock.conn.Close() is not yet deferred
HandlePanic ==
    /\ pc' = "closed"
    /\ csock' = Close(csock)

\* bytes.IndexByte(methods, 0x0) >= 0
noAuthOffered(methods) == ContainsByte(methods, methodNoAuth)

\* sockConn.handshake
Handshake ==
    /\ pc = "handshake"
    /\ UNCHANGED <<srvVars, shufVars>>
    /\ LET r1 == readAll(cin, cend, 2)
           r2 == readAll(r1.rest, cend, r1.rv[2])
       IN  IF ~r1.ok
           THEN /\ HandlePanic
                /\ UNCHANGED <<cin, cout, hs, wrote>>
           ELSE IF r1.rv[1] # protoVersion
           THEN /\ HandlePanic
                /\ cin' = r1.rest
                /\ hs' = r1.rv
                /\ UNCHANGED <<cout, wrote>>
           ELSE IF ~r2.ok
           THEN /\ HandlePanic
                /\ cin' = <<>>
                /\ hs' = r1.rv
                /\ UNCHANGED <<cout, wrote>>
           ELSE /\ cin' = r2.rest
                /\ hs' = r1.rv \o r2.rv
                /\ \E wok \in BOOLEAN :
                     LET m == IF noAuthOffered(r2.rv) THEN methodNoAuth
                              ELSE methodNone
                     IN  /\ wrote' = Append(wrote, <<5, m>>)
                         /\ cout' = IF wok THEN cout \o <<5, m>> ELSE cout
                         /\ IF wok /\ m = methodNoAuth
                            THEN pc' = "connect" /\ UNCHANGED csock
                            ELSE HandlePanic
    /\ UNCHANGED <<lip, cend, uin, req, rips, ridx, port, lasterr, lookups,
                   ruled, dialed, replies, rsock, quitn, tpc, buf, nr, off,
                   srcRead, dlv, timedOut, endedBy, sent, late>>

\* the switch on command[1] in connect
commandSupportedOrBind(cmd) == cmd \in {cmdConnect, cmdBind}

commandSupported(cmd) == cmd = cmdConnect

\* the 10 bytes writeError sends
writeErrorBytes(rsp) ==
    <<protoVersion, rsp, 0, atypeIPV4, 0, 0, 0, 0, 0, 0>>

\* binary.BigEndian.Uint16 and PutUint16
Uint16(b) == b[1] * 256 + b[2]
PutUint16(v) == <<(v \div 256) % 256, v % 256>>

\* connect, the switch on command[3]: the candidate list of the request.
\* out: "ok", "panic" (a panic without a Reply) or "error" (writeError(rsp))
connectAddress(atyp, s, end, res) ==
    LET none == [out |-> "panic", rsp |-> 0, rips |-> <<>>, rest |-> <<>>,
                 lookups |-> 0]
    IN
    CASE atyp = atypeIPV4 ->
           LET r == readAll(s, end, 4)
           IN  IF ~r.ok THEN none
               ELSE [none EXCEPT !.out = "ok", !.rest = r.rest,
                        !.rips = <<IPv4(r.rv[1], r.rv[2], r.rv[3], r.rv[4])>>]
      [] atyp = atypeIPV6 ->
           LET r == readAll(s, end, 16)
           IN  IF ~r.ok THEN none
               ELSE [none EXCEPT !.out = "ok", !.rest = r.rest,
                                 !.rips = <<r.rv>>]
      [] atyp = atypeDomain ->
           LET rl == readAll(s, end, 1)
               rd == readAll(rl.rest, end, rl.rv[1])
           IN  IF ~rl.ok \/ ~rd.ok THEN none
               ELSE IF res.kind = "panic" THEN [none EXCEPT !.lookups = 1]
               ELSE IF res.kind = "err"
               THEN [none EXCEPT !.out = "error", !.rsp = repNotAddressable,
                                 !.lookups = 1]
               ELSE [none EXCEPT !.out = "ok", !.rest = rd.rest,
                                 !.rips = res.addrs, !.lookups = 1]
      [] OTHER -> [none EXCEPT !.out = "error", !.rsp = repNotAddressable]

\* connect up to the candidate loop: the request as read from stream s
connectRequest(s, end, res) ==
    LET r1 == readAll(s, end, 4)
        command == r1.rv
        none == [out |-> "panic", rsp |-> 0, hdr |-> <<>>, rips |-> <<>>,
                 port |-> 0, rest |-> <<>>, lookups |-> 0]
    IN  IF ~r1.ok THEN none
        ELSE IF command[1] # protoVersion THEN [none EXCEPT !.hdr = command]
        ELSE IF ~commandSupported(command[2])
        THEN [none EXCEPT !.out = "error", !.rsp = repNotSupported,
                          !.hdr = command]
        ELSE LET a == connectAddress(command[4], r1.rest, end, res)
                 rp == readAll(a.rest, end, 2)
             IN  IF a.out # "ok"
                 THEN [none EXCEPT !.out = a.out, !.rsp = a.rsp,
                                   !.hdr = command, !.lookups = a.lookups]
                 ELSE IF ~rp.ok
                 THEN [none EXCEPT !.hdr = command, !.lookups = a.lookups]
                 ELSE [out |-> "ok", rsp |-> 0, hdr |-> command,
                       rips |-> a.rips, port |-> Uint16(rp.rv),
                       rest |-> rp.rest, lookups |-> a.lookups]

\* writeError(rsp, err): the Reply is written, then the panic unwinds to
\* handle's deferred function; wok: the Write on the client socket succeeds
WriteError(rsp, wok) ==
    /\ replies' = Append(replies, rsp)
    /\ wrote' = Append(wrote, writeErrorBytes(rsp))
    /\ cout' = IF wok THEN cout \o writeErrorBytes(rsp) ELSE cout
    /\ HandlePanic

\* connect, lines 183..216: the request is read and the name is resolved
ConnectRequest ==
    /\ pc = "connect"
    /\ UNCHANGED <<srvVars, shufVars>>
    /\ \E res \in ResolverResults, wok \in BOOLEAN :
         LET q == connectRequest(cin, cend, res)
         IN  /\ req' = q.hdr
             /\ lookups' = IF q.lookups = 1 THEN <<res>> ELSE <<>>
             /\ cin' = q.rest
             /\ CASE q.out = "panic" ->
                       /\ HandlePanic
                       /\ UNCHANGED <<cout, replies, wrote, rips, ridx, port>>
                  [] q.out = "error" ->
                       /\ WriteError(q.rsp, wok)
                       /\ UNCHANGED <<rips, ridx, port>>
                  [] OTHER ->
                       /\ pc' = "dial"
                       /\ rips' = q.rips
                       /\ ridx' = 1
                       /\ port' = q.port
                       /\ UNCHANGED <<cout, replies, wrote, csock>>
    /\ UNCHANGED <<lip, cend, uin, hs, lasterr, ruled, dialed, rsock, quitn,
                   tpc, buf, nr, off, srcRead, dlv, timedOut, endedBy, sent,
                   late>>

\* sockConn.IP: RemoteAddr() of a TCP connection is a *net.TCPAddr, which
\* the type switch does not list
sockIP(raddr) == IF raddr.type = "IPAddr" THEN raddr.ip ELSE <<>>

\* sock.conn.RemoteAddr() of the accepted *net.TCPConn
RemoteAddr == [type |-> "TCPAddr", ip |-> <<203, 0, 113, 7>>]

\* the transport of a candidate
dialProto(rip) == IF To4(rip) = <<>> THEN "tcp6" ELSE "tcp"

\* connect, the switch after the candidate loop
dialErrorReplyFailure(err) == repFailure

dialErrorReply(err) ==
    IF err = "invalid" THEN repNotAddressable ELSE repFailure

\* connect, one round of the candidate loop (lines 218..236), and what
\* follows the loop once the candidates are used up (lines 237..247)
ConnectDial ==
    /\ pc = "dial"
    /\ UNCHANGED <<srvVars, shufVars>>
    /\ \E ifErr \in BOOLEAN, dres \in DialResults, wok \in BOOLEAN :
         IF ridx > Len(rips)
         THEN IF lasterr # "nil"
              THEN /\ WriteError(dialErrorReply(lasterr), wok)
                   /\ UNCHANGED <<ruled, dialed, rsock, ridx, lasterr>>
              ELSE \* no candidate at all: rconn is nil and so is err
                   /\ pc' = "reply"
                   /\ rsock' = NilSock
                   /\ UNCHANGED <<ruled, dialed, replies, wrote, cout, csock,
                                  ridx, lasterr>>
         ELSE LET rip == rips[ridx]
                  who == sockIP(RemoteAddr)
                  verdict == ConnectionAllowed(who, rip, ifErr)
              IN  /\ ruled' = Append(ruled, [requestee |-> who,
                                             requested |-> rip,
                                             result |-> verdict])
                  /\ IF verdict # AllowConnection
                     THEN /\ WriteError(repNotAllowed, wok)
                          /\ UNCHANGED <<dialed, rsock, ridx, lasterr>>
                     ELSE /\ dialed' = Append(dialed,
                                 [rip |-> rip, proto |-> dialProto(rip),
                                  port |-> port, res |-> dres])
                          /\ IF dres = "ok"
                             THEN /\ pc' = "reply"
                                  /\ rsock' = OpenSock
                                  /\ lasterr' = "nil"
                                  /\ UNCHANGED ridx
                             ELSE /\ pc' = "dial"
                                  /\ ridx' = ridx + 1
                                  /\ lasterr' = dres
                                  /\ UNCHANGED rsock
                          /\ UNCHANGED <<replies, wrote, cout, csock>>
    /\ UNCHANGED <<lip, cin, cend, uin, hs, req, rips, port, lookups, quitn,
                   tpc, buf, nr, off, srcRead, dlv, timedOut, endedBy, sent,
                   late>>

\* the four writes of the success Reply (lines 250..260)
successReply(ip, p) ==
    <<  <<protoVersion, repSuccess, 0>>,
        IF To4(ip) # <<>> THEN <<atypeIPV4>> ELSE <<atypeIPV6>>,
        IF To4(ip) # <<>> THEN To4(ip) ELSE To16(ip),
        PutUint16(p)  >>

Concat4(parts, k) ==
    (IF k >= 1 THEN parts[1] ELSE <<>>) \o (IF k >= 2 THEN parts[2] ELSE <<>>)
    \o (IF k >= 3 THEN parts[3] ELSE <<>>) \o (IF k >= 4 THEN parts[4] ELSE <<>>)

\* connect from line 248 and handle up to the start of the two copy tasks;
\* k of the four writes succeed, the next one fails and panics
ConnectReply ==
    /\ pc = "reply"
    /\ UNCHANGED <<srvVars, shufVars>>
    /\ \E k \in 0..4 :
         /\ replies' = Append(replies, repSuccess)
         /\ wrote' = wrote \o Take(successReply(lip, port), Min(k + 1, 4))
         /\ cout' = cout \o Concat4(successReply(lip, port), k)
         /\ IF k < 4
            THEN /\ HandlePanic
                 /\ UNCHANGED tpc
            ELSE /\ pc' = "relay"
                 /\ tpc' = [d \in Dirs |-> "read"]
                 /\ UNCHANGED csock
    /\ UNCHANGED <<lip, cin, cend, uin, hs, req, rips, ridx, port, lasterr,
                   lookups, ruled, dialed, rsock, quitn, buf, nr, off,
                   srcRead, dlv, timedOut, endedBy, sent, late>>

----------------------------------------------------------------------------
\* The relay: sock.copyFrom(rsock, quit) is direction "c2u",
\* rsock.copyFrom(sock, quit) is direction "u2c".

SrcSock(d) == IF d = "c2u" THEN csock ELSE rsock
DstSock(d) == IF d = "c2u" THEN rsock ELSE csock

\* copyFrom's deferred function: sock.conn.CloseRead(), dst.conn.CloseWrite()
deferSrcFull(s) == Close(s)

deferSrc(s) == CloseRead(s)

deferDst(s) == CloseWrite(s)

\* the panic of copyFrom, its deferred function up to the send on quit
CopyDefer(d, why) ==
    /\ tpc' = [tpc EXCEPT ![d] = "quit"]
    /\ endedBy' = [endedBy EXCEPT ![d] = why]
    /\ IF d = "c2u"
       THEN csock' = deferSrc(csock) /\ rsock' = deferDst(rsock)
       ELSE rsock' = deferSrc(rsock) /\ csock' = deferDst(csock)

\* what sock.Read(buf) can return in direction d: n > 0 bytes, a timeout or
\* temporary error, end-of-stream, or another error
ReadResults(d) ==
    LET src == IF d = "c2u" THEN cin ELSE uin
    IN  IF ~SrcSock(d).rd THEN { [kind |-> "error", n |-> 0] }
        ELSE { [kind |-> "data", n |-> n] : n \in 1..Min(bufSize, Len(src)) }
             \cup { [kind |-> "transient", n |-> 0] }
             \cup IF src # <<>> THEN {}
                  ELSE IF d = "u2c"
                  THEN { [kind |-> "eof", n |-> 0], [kind |-> "error", n |-> 0] }
                  ELSE IF cend = "eof" THEN { [kind |-> "eof", n |-> 0] }
                  ELSE IF cend = "reset" THEN { [kind |-> "error", n |-> 0] }
                  ELSE {}

\* copyFrom, lines 133..134 and 146..151: one Read and, when it brought no
\* bytes, the handling of its error
CopyRead(d) ==
    /\ pc = "relay"
    /\ UNCHANGED <<srvVars, shufVars>>
    /\ tpc[d] = "read"
    /\ \E r \in ReadResults(d) :
         LET src == IF d = "c2u" THEN cin ELSE uin
         IN  CASE r.kind = "data" ->
                    /\ buf' = [buf EXCEPT ![d] = Take(src, r.n)
                                               \o Drop(buf[d], r.n)]
                    /\ nr' = [nr EXCEPT ![d] = r.n]
                    /\ off' = [off EXCEPT ![d] = 0]
                    /\ srcRead' = [srcRead EXCEPT
                                     ![d] = srcRead[d] \o Take(src, r.n)]
                    /\ IF d = "c2u"
                       THEN cin' = Drop(cin, r.n) /\ UNCHANGED uin
                       ELSE uin' = Drop(uin, r.n) /\ UNCHANGED cin
                    /\ tpc' = [tpc EXCEPT ![d] = "write"]
                    /\ UNCHANGED <<timedOut, endedBy, csock, rsock>>
               [] r.kind = "transient" ->
                    /\ timedOut' = [timedOut EXCEPT ![d] = TRUE]
                    /\ UNCHANGED <<buf, nr, off, srcRead, cin, uin, tpc,
                                   endedBy, csock, rsock>>
               [] OTHER ->
                    /\ CopyDefer(d, r.kind)
                    /\ UNCHANGED <<buf, nr, off, srcRead, cin, uin, timedOut>>
    /\ UNCHANGED <<pc, lip, cend, cout, hs, req, rips, ridx, port, lasterr,
                   lookups, ruled, dialed, replies, quitn, dlv, sent, wrote,
                   late>>

\* what dst.Write(wbuf[0:n]) can return: nw = n and no error, or nw < n and
\* an error that is transient (timeout, temporary) or not
WriteResults(d, n) ==
    IF ~DstSock(d).wr THEN { [nw |-> 0, err |-> "error"] }
    ELSE { [nw |-> n, err |-> "nil"] }
         \cup { [nw |-> k, err |-> e] : k \in 0..(n - 1),
                                        e \in {"transient", "error"} }

\* line 138, wbuf = wbuf[nr:] with nr already reduced: the new start of wbuf
wbufAdvance(o, nrLeft, nw) == o + nrLeft

\* copyFrom, lines 135..145: one round of the write loop
CopyWrite(d) ==
    /\ pc = "relay"
    /\ UNCHANGED <<srvVars, shufVars>>
    /\ tpc[d] = "write"
    /\ IF nr[d] > bufSize - off[d]
       THEN \* wbuf[0:nr] is out of range: a run-time panic
            /\ CopyDefer(d, "panic")
            /\ UNCHANGED <<nr, off, dlv, cout, late>>
       ELSE \E w \in WriteResults(d, nr[d]) :
              LET out == SubSeq(buf[d], off[d] + 1, off[d] + w.nw)
                  left == nr[d] - w.nw
                  other == IF d = "c2u" THEN "u2c" ELSE "c2u"
              IN  /\ dlv' = [dlv EXCEPT ![d] = dlv[d] \o out]
                  /\ cout' = IF d = "u2c" THEN cout \o out ELSE cout
                  /\ late' = IF tpc[other] \in {"quit", "done"}
                             THEN [late EXCEPT ![d] = late[d] + w.nw]
                             ELSE late
                  /\ nr' = [nr EXCEPT ![d] = left]
                  /\ off' = [off EXCEPT ![d] = wbufAdvance(off[d], left, w.nw)]
                  /\ CASE w.err = "error" -> CopyDefer(d, "error")
                       [] w.err = "transient" ->
                            UNCHANGED <<tpc, endedBy, csock, rsock>>
                       [] OTHER ->
                            /\ tpc' = [tpc EXCEPT ![d] = "read"]
                            /\ UNCHANGED <<endedBy, csock, rsock>>
    /\ UNCHANGED <<pc, lip, cin, cend, uin, hs, req, rips, ridx, port, lasterr,
                   lookups, ruled, dialed, replies, quitn, buf, srcRead,
                   timedOut, sent, wrote>>

\* handle, lines 286..288: one receive from quit; after the second one the
\* deferred rsock.conn.Close() and sock.conn.Close() run
HandleQuit(d) ==
    /\ pc = "relay"
    /\ UNCHANGED <<srvVars, shufVars>>
    /\ tpc[d] = "quit"
    /\ tpc' = [tpc EXCEPT ![d] = "done"]
    /\ quitn' = quitn + 1
    /\ IF quitn + 1 = 2
       THEN /\ pc' = "closed"
            /\ rsock' = Close(rsock)
            /\ csock' = Close(csock)
       ELSE UNCHANGED <<pc, rsock, csock>>
    /\ UNCHANGED <<lip, cin, cend, uin, cout, hs, req, rips, ridx, port,
                   lasterr, lookups, ruled, dialed, replies, buf, nr, off,
                   srcRead, dlv, timedOut, endedBy, sent, wrote, late>>

Next ==
    \/ Handshake
    \/ ConnectRequest
    \/ ConnectDial
    \/ ConnectReply
    \/ \E d \in Dirs : CopyRead(d)
    \/ \E d \in Dirs : CopyWrite(d)
    \/ \E d \in Dirs : HandleQuit(d)

----------------------------------------------------------------------------
\* The server.  running is the channel of capacity 1 shared by all control
\* loops, conq[k] the intake channel of loop k, acc[g] the accept goroutine
\* started by the g-th successful listen, cst[c] the state of connection c.

Loops == 1..NLoops
Gors == 1..MaxListens
Conns == 1..MaxConns

runningCap == 1

\* NewServer: DefaultResolver, DefaultLogger, DefaultRuler
DefaultCfg == [resolver |-> "default", logger |-> "default", ruler |-> "default"]

\* no call of Stop or Continue has been made
NoCall == [active |-> {}, count |-> 0]

NoAcc == [loop |-> 0, st |-> "none", conn |-> 0, open |-> FALSE]

ServerInit ==
    /\ running = <<>>
    /\ instances = 0
    /\ lpc = [k \in Loops |-> "idle"]
    /\ lsn = [k \in Loops |-> 0]
    /\ conq = [k \in Loops |-> <<>>]
    /\ acc = [g \in Gors |-> NoAcc]
    /\ cst = [c \in Conns |-> "none"]
    /\ crashed = FALSE
    /\ ctl = [op |-> "none", pc |-> "none", i |-> 0]
    /\ ncalls = 0
    /\ lastOp = "none"
    /\ pausedAt = {}
    /\ atCall = NoCall
    /\ stops = 0
    /\ logged = 0
    /\ cfg = DefaultCfg
    /\ setLive = FALSE
    /\ reg = [k \in Loops |-> 0]

FreeGors == { g \in Gors : acc[g].st = "none" }
NextGor == CHOOSE g \in FreeGors : \A h \in FreeGors : g <= h

FreshConns == { c \in Conns : cst[c] = "none" }
NextConn == CHOOSE c \in FreshConns : \A e \in FreshConns : c <= e

\* server.listen for loop k: net.ListenTCP succeeds and the accept goroutine
\* starts
listen(k) ==
    /\ lsn' = [lsn EXCEPT ![k] = NextGor]
    /\ acc' = [acc EXCEPT ![NextGor] =
                  [loop |-> k, st |-> "accept", conn |-> 0, open |-> TRUE]]

\* ListenAndServe up to the for loop (lines 184..194).  self.instances++
\* is a load and a store of the shared field without any lock: the load
\* happens here, the store in LoopCount.
ListenAndServe(k) ==
    /\ ~crashed
    /\ lpc[k] = "idle"
    /\ FreeGors # {}
    /\ \E ok \in BOOLEAN :
         IF ok
         THEN /\ listen(k)
              /\ reg' = [reg EXCEPT ![k] = instances]
              /\ lpc' = [lpc EXCEPT ![k] = "incw"]
         ELSE /\ lpc' = [lpc EXCEPT ![k] = "returned"]
              /\ UNCHANGED <<lsn, acc, reg>>
    /\ UNCHANGED <<running, instances, conq, cst, crashed, ctl, ncalls,
                   lastOp, pausedAt, atCall, stops, logged>>
    /\ UNCHANGED <<connVars, shufVars, cfgVars>>

\* the store of self.instances++ (lines 194, 210) and of self.instances--
\* (line 203)
LoopCount(k) ==
    /\ ~crashed
    /\ lpc[k] \in {"incw", "decw"}
    /\ instances' = IF lpc[k] = "incw" THEN reg[k] + 1 ELSE reg[k] - 1
    /\ lpc' = [lpc EXCEPT ![k] = "serving"]
    /\ reg' = [reg EXCEPT ![k] = 0]
    /\ UNCHANGED <<running, lsn, conq, acc, cst, crashed, ctl, ncalls,
                   lastOp, pausedAt, atCall, stops, logged>>
    /\ UNCHANGED <<connVars, shufVars, cfgVars>>

\* the control loop, case running := <-self.running (lines 198..211), up
\* to the load of self.instances-- or self.instances++
LoopRunning(k) ==
    /\ ~crashed
    /\ lpc[k] = "serving"
    /\ running # <<>>
    /\ running' = Tail(running)
    /\ CASE ~Head(running) /\ lsn[k] # 0 ->
              /\ acc' = [acc EXCEPT ![lsn[k]].open = FALSE]
              /\ lsn' = [lsn EXCEPT ![k] = 0]
              /\ reg' = [reg EXCEPT ![k] = instances]
              /\ lpc' = [lpc EXCEPT ![k] = "decw"]
              /\ stops' = stops + 1
         [] Head(running) /\ lsn[k] = 0 ->
              /\ FreeGors # {}
              /\ \E ok \in BOOLEAN :
                   IF ok
                   THEN /\ listen(k)
                        /\ reg' = [reg EXCEPT ![k] = instances]
                        /\ lpc' = [lpc EXCEPT ![k] = "incw"]
                   ELSE /\ lpc' = [lpc EXCEPT ![k] = "returned"]
                        /\ UNCHANGED <<lsn, acc, reg>>
              /\ UNCHANGED stops
         [] OTHER -> UNCHANGED <<acc, lsn, reg, stops, lpc>>
    /\ UNCHANGED <<instances, conq, cst, crashed, ctl, ncalls, lastOp,
                   pausedAt, atCall, logged>>
    /\ UNCHANGED <<connVars, shufVars, cfgVars>>

\* the control loop, case conn := <-conns (lines 212..214): go sock.handle
LoopDispatch(k) ==
    /\ ~crashed
    /\ lpc[k] = "serving"
    /\ conq[k] # <<>>
    /\ conq' = [conq EXCEPT ![k] = Tail(conq[k])]
    /\ cst' = [cst EXCEPT ![Head(conq[k])] = "serving"]
    /\ UNCHANGED <<running, instances, lpc, lsn, acc, crashed, ctl, ncalls,
                   lastOp, pausedAt, atCall, stops, logged>>
    /\ UNCHANGED <<connVars, shufVars, cfgVars, reg>>

\* the accept goroutine: l.Accept() returns a connection (line 163)
AcceptConn(g) ==
    /\ ~crashed
    /\ acc[g].st = "accept"
    /\ acc[g].open
    /\ FreshConns # {}
    /\ acc' = [acc EXCEPT ![g].st = "push", ![g].conn = NextConn]
    /\ cst' = [cst EXCEPT ![NextConn] = "accepted"]
    /\ UNCHANGED <<running, instances, lpc, lsn, conq, crashed, ctl, ncalls,
                   lastOp, pausedAt, atCall, stops, logged>>
    /\ UNCHANGED <<connVars, shufVars, cfgVars, reg>>

\* the accept goroutine: c <- tconn (line 176)
AcceptPush(g) ==
    /\ ~crashed
    /\ acc[g].st = "push"
    /\ Len(conq[acc[g].loop]) < connChanCap
    /\ conq' = [conq EXCEPT ![acc[g].loop] = Append(@, acc[g].conn)]
    /\ cst' = [cst EXCEPT ![acc[g].conn] = "queued"]
    /\ acc' = [acc EXCEPT ![g].st = "accept", ![g].conn = 0]
    /\ UNCHANGED <<running, instances, lpc, lsn, crashed, ctl, ncalls,
                   lastOp, pausedAt, atCall, stops, logged>>
    /\ UNCHANGED <<connVars, shufVars, cfgVars, reg>>

\* the accept goroutine: a temporary error is logged and Accept is retried
\* (lines 164..168)
AcceptTemporary(g) ==
    /\ ~crashed
    /\ acc[g].st = "accept"
    /\ acc[g].open
    /\ logged < MaxAcceptErrs
    /\ logged' = logged + 1
    /\ UNCHANGED <<running, instances, lpc, lsn, conq, acc, cst, crashed,
                   ctl, ncalls, lastOp, pausedAt, atCall, stops>>
    /\ UNCHANGED <<connVars, shufVars, cfgVars, reg>>

\* the accept goroutine: Accept returns the error of a closed listener
\* (lines 163..173).  The error is not temporary, the if of line 164 falls through
\* with conn = nil, the type assertion of line 170 fails and conn.Close()
\* (line 173) is a call on a nil interface: a run-time panic that no
\* function of the goroutine recovers, which ends the process.
AcceptClosed(g) ==
    /\ ~crashed
    /\ acc[g].st = "accept"
    /\ ~acc[g].open
    /\ crashed' = TRUE
    /\ UNCHANGED <<running, instances, lpc, lsn, conq, acc, cst, ctl, ncalls,
                   lastOp, pausedAt, atCall, stops, logged>>
    /\ UNCHANGED <<connVars, shufVars, cfgVars, reg>>

\* sock.handle of connection c, seen from the server: it negotiates, may
\* relay, and ends; every panic in it is recovered (lines 266..273)
HandleConn(c) ==
    /\ ~crashed
    /\ \/ cst[c] = "serving" /\ \E n \in {"relaying", "done"} :
                                   cst' = [cst EXCEPT ![c] = n]
       \/ cst[c] = "relaying" /\ cst' = [cst EXCEPT ![c] = "done"]
    /\ UNCHANGED <<running, instances, lpc, lsn, conq, acc, crashed, ctl,
                   ncalls, lastOp, pausedAt, atCall, stops, logged>>
    /\ UNCHANGED <<connVars, shufVars, cfgVars, reg>>

Signals == {"stop", "continue"}
Setters == {"SetDNSResolver", "SetLogger", "SetRuler"}

\* a caller enters Stop(), Continue() or a setter
Call(op) ==
    /\ ~crashed
    /\ ctl.op = "none"
    /\ ncalls < MaxCalls
    /\ ncalls' = ncalls + 1
    /\ ctl' = [op |-> op, pc |-> "check", i |-> 0]
    /\ pausedAt' = IF op = "continue"
                   THEN { k \in Loops : lpc[k] = "serving" /\ lsn[k] = 0 }
                   ELSE {}
    /\ atCall' = IF op = "stop"
                 THEN [active |-> { k \in Loops :
                                      lpc[k] = "serving" /\ lsn[k] # 0 },
                       count |-> instances]
                 ELSE NoCall
    /\ UNCHANGED <<running, instances, lpc, lsn, conq, acc, cst, crashed,
                   lastOp, stops, logged>>
    /\ UNCHANGED <<connVars, shufVars, cfgVars, reg>>

\* Stop and Continue, the loop condition i < self.instances (lines 242, 248)
CallCheck ==
    /\ ~crashed
    /\ ctl.pc = "check"
    /\ ctl.op \in Signals
    /\ IF ctl.i < instances
       THEN ctl' = [ctl EXCEPT !.pc = "send"] /\ UNCHANGED lastOp
       ELSE /\ ctl' = [op |-> "none", pc |-> "none", i |-> 0]
            /\ lastOp' = ctl.op
    /\ UNCHANGED <<running, instances, lpc, lsn, conq, acc, cst, crashed,
                   ncalls, pausedAt, atCall, stops, logged>>
    /\ UNCHANGED <<connVars, shufVars, cfgVars, reg>>

\* Stop and Continue, the send self.running <- false / true and i++
CallSend ==
    /\ ~crashed
    /\ ctl.pc = "send"
    /\ Len(running) < runningCap
    /\ running' = Append(running, ctl.op = "continue")
    /\ ctl' = [ctl EXCEPT !.pc = "check", !.i = ctl.i + 1]
    /\ UNCHANGED <<instances, lpc, lsn, conq, acc, cst, crashed, ncalls,
                   lastOp, pausedAt, atCall, stops, logged>>
    /\ UNCHANGED <<connVars, shufVars, cfgVars, reg>>

\* the assignment of a setter (lines 228, 233, 238); SetDNSResolver wraps
\* the resolver in a shuffleResolver
setField(c, op) ==
    CASE op = "SetDNSResolver" -> [c EXCEPT !.resolver = "shuffle"]
      [] op = "SetLogger" -> [c EXCEPT !.logger = "custom"]
      [] op = "SetRuler" -> [c EXCEPT !.ruler = "custom"]

\* panicIfListening (lines 220..224): the load of self.instances and the
\* panic of the setter
panicIfListening ==
    /\ ~crashed
    /\ ctl.pc = "check"
    /\ ctl.op \in Setters
    /\ IF instances > 0
       THEN /\ ctl' = [op |-> "none", pc |-> "none", i |-> 0]
            /\ lastOp' = "ErrorAlreadyListening"
       ELSE /\ ctl' = [ctl EXCEPT !.pc = "assign"]
            /\ UNCHANGED lastOp
    /\ UNCHANGED <<running, instances, lpc, lsn, conq, acc, cst, crashed,
                   ncalls, pausedAt, atCall, stops, logged>>
    /\ UNCHANGED <<connVars, shufVars, cfgVars, reg>>

\* SetDNSResolver, SetLogger, SetRuler after panicIfListening has returned
SetField ==
    /\ ~crashed
    /\ ctl.pc = "assign"
    /\ cfg' = setField(cfg, ctl.op)
    /\ setLive' = (setLive \/ \E k \in Loops : lsn[k] # 0)
    /\ ctl' = [op |-> "none", pc |-> "none", i |-> 0]
    /\ lastOp' = ctl.op
    /\ UNCHANGED <<running, instances, lpc, lsn, conq, acc, cst, crashed,
                   ncalls, pausedAt, atCall, stops, logged>>
    /\ UNCHANGED <<connVars, shufVars, reg>>

ServerNext ==
    \/ \E k \in Loops : ListenAndServe(k)
    \/ \E k \in Loops : LoopCount(k)
    \/ \E k \in Loops : LoopRunning(k)
    \/ \E k \in Loops : LoopDispatch(k)
    \/ \E g \in Gors : AcceptConn(g)
    \/ \E g \in Gors : AcceptPush(g)
    \/ \E g \in Gors : AcceptTemporary(g)
    \/ \E g \in Gors : AcceptClosed(g)
    \/ \E c \in Conns : HandleConn(c)
    \/ \E op \in Signals \cup Setters : Call(op)
    \/ CallCheck
    \/ CallSend
    \/ panicIfListening
    \/ SetField

----------------------------------------------------------------------------
\* shuffleResolver.LookupIP (resolver.go lines 49..59).

\* what the wrapped resolver returns: (addrs, nil) or (nil, err)
ShuffleInputs ==
    { [kind |-> "ok", addrs |-> l] : l \in SeqsUpTo(CandIPs, MaxShuffle) }
    \cup { [kind |-> "err", addrs |-> <<>>] }

\* no lookup through a shuffleResolver is looked at
ShuffleIdle ==
    /\ sorig = [kind |-> "none", addrs |-> <<>>]
    /\ saddrs = <<>>
    /\ sn = 0
    /\ spc = "idle"

ShuffleInit ==
    /\ sorig \in ShuffleInputs
    /\ saddrs = <<>>
    /\ sn = 0
    /\ spc = "call"

\* addrs[i], addrs[j] = addrs[j], addrs[i] with indices counted from 0
swap(a, i, j) == [a EXCEPT ![i + 1] = a[j + 1], ![j + 1] = a[i + 1]]

\* line 50 and the initialisation of the loop, n := len(addrs)
ShuffleLookup ==
    /\ spc = "call"
    /\ saddrs' = sorig.addrs
    /\ IF sorig.kind = "ok"
       THEN spc' = "loop" /\ sn' = Len(sorig.addrs)
       ELSE spc' = "returned" /\ sn' = 0
    /\ UNCHANGED <<sorig, connVars, srvVars>>

\* lines 52..56, one round of the loop: r := rand.Intn(n + 1) is any of
\* 0..n; an index that is not below len(addrs) is a run-time panic
ShuffleStep ==
    /\ spc = "loop"
    /\ IF sn > 1
       THEN \E r \in 0..sn :
              IF r = sn
              THEN /\ sn' = sn - 1
                   /\ UNCHANGED <<saddrs, spc>>
              ELSE IF sn >= Len(saddrs)
              THEN /\ spc' = "panic"
                   /\ UNCHANGED <<saddrs, sn>>
              ELSE /\ saddrs' = swap(saddrs, r, sn)
                   /\ sn' = sn - 1
                   /\ UNCHANGED spc
       ELSE /\ spc' = "returned"
            /\ UNCHANGED <<saddrs, sn>>
    /\ UNCHANGED <<sorig, connVars, srvVars>>

ShuffleNext == ShuffleLookup \/ ShuffleStep

----------------------------------------------------------------------------
Init == ConnInit /\ ServerInit /\ ShuffleIdle

Spec == Init /\ [][Next]_vars

ServerStart == ConnIdle /\ ServerInit /\ ShuffleIdle

ShuffleStart == ConnIdle /\ ServerInit /\ ShuffleInit

ShuffleSpec == ShuffleStart /\ [][ShuffleNext]_vars

ServerSpec == ServerStart /\ [][ServerNext]_vars

----------------------------------------------------------------------------
\* Properties.

IsPrefix(a, b) == Len(a) <= Len(b) /\ Take(b, Len(a)) = a

\* the client sent a whole handshake and a whole request
CompleteSent ==
    \E h \in Handshakes, r \in Requests : IsPrefix(h \o r, sent)

\* the method bytes the client sent after [ver][nmethods]
SentMethods == SubSeq(sent, 3, Min(Len(sent), 2 + sent[2]))

\* the relay runs between the client and an established upstream connection
RelayStarted == pc = "relay" /\ rsock.kind = "conn"

\* C1: in a started relay, in both directions, the bytes delivered to the
\* destination are the bytes copyFrom read from its source, in order, with
\* none skipped, duplicated or taken from beyond the bytes of the read,
\* however Write splits them.
C1_RelayDeliversWhatWasRead ==
    \A d \in Dirs :
        /\ IsPrefix(dlv[d], srcRead[d])
        /\ tpc[d] = "read" => dlv[d] = srcRead[d]

\* every candidate of the request is denied by the Access Policy
AllDenied ==
    /\ rips # <<>>
    /\ \A i \in 1..Len(rips) :
          ConnectionAllowed(<<>>, rips[i], FALSE) # AllowConnection

HandshakeLacksNoAuth ==
    /\ Len(sent) >= 2
    /\ sent[1] = protoVersion
    /\ ~ContainsByte(SentMethods, methodNoAuth)
    /\ Len(SentMethods) = sent[2] \/ cend = "eof"

\* C3: a handshake that does not contain the method byte 0x00 is answered
\* with {0x05, 0xFF}, never with {0x05, 0x00}, and the connection is closed
\* without a request being read.
C3_NoMethodZeroIsRefused ==
    (HandshakeLacksNoAuth /\ pc # "handshake") =>
        /\ wrote = << <<5, 255>> >>
        /\ pc = "closed"
        /\ req = <<>>

\* C4: a request of version 5 whose command is not CONNECT gets exactly one
\* Reply, of status 0x07, without name resolution, policy check or dial,
\* and the client connection is closed.
C4_OtherCommandsNotSupported ==
    (/\ Len(req) = 4
     /\ req[1] = protoVersion
     /\ req[2] # 1) =>
        /\ pc = "closed"
        /\ replies = <<repNotSupported>>
        /\ wrote[Len(wrote)] = <<5, 7, 0, 1, 0, 0, 0, 0, 0, 0>>
        /\ Len(wrote) = 2
        /\ lookups = <<>>
        /\ ruled = <<>>
        /\ dialed = <<>>
        /\ rsock = NoSock
        /\ ~csock.open

C4_Witness ==
    /\ req = <<5, cmdBind, 0, atypeDomain>>
    /\ pc = "closed"
    /\ cout = <<5, 0, 5, 7, 0, 1, 0, 0, 0, 0, 0, 0>>

\* the resolver was asked and gave no candidate: an error, or no address
NoCandidates ==
    /\ CompleteSent
    /\ req = <<protoVersion, cmdConnect, 0, atypeDomain>>
    /\ Len(lookups) = 1
    /\ \/ lookups[1].kind = "err"
       \/ lookups[1].kind = "ok" /\ lookups[1].addrs = <<>>

\* C5: a domain-name CONNECT for which the resolver yields no candidate is
\* answered with status 0x04 or 0x08; nothing is dialed, no success Reply
\* is written and the relay is not entered.
C5_NoCandidateIsRefused ==
    NoCandidates =>
        /\ dialed = <<>>
        /\ \A i \in 1..Len(replies) : replies[i] # repSuccess
        /\ pc # "relay"
        /\ pc = "closed" =>
              Len(replies) = 1 /\ replies[1] \in {repHostUnreachable, 8}

\* the length of the handshake the client sent, and the port of its request
SentPort(alen) ==
    SubSeq(sent, 2 + sent[2] + 4 + alen + 1, 2 + sent[2] + 4 + alen + 2)

BoundAddr(ip) == IF ip = IPv4zero THEN <<1, 0, 0, 0, 0>> ELSE <<4>> \o ip

\* C6, the Reply of a literal address: an IPv4 or IPv6 CONNECT whose
\* candidate is allowed and dialed with success opens one connection and is
\* answered 05 00 00, the listen address and the port of the request.
C6_LiteralSuccessReply ==
    \A atyp \in {atypeIPV4, atypeIPV6} :
        (/\ CompleteSent
         /\ req = <<protoVersion, cmdConnect, 0, atyp>>
         /\ dialed # <<>>
         /\ dialed[Len(dialed)].res = "ok"
         /\ pc = "relay") =>
            /\ Len(dialed) = 1
            /\ replies = <<repSuccess>>
            /\ IsPrefix(<<5, 0, 5, 0, 0>> \o BoundAddr(lip)
                          \o SentPort(IF atyp = atypeIPV4 THEN 4 ELSE 16),
                        cout)

\* C6: a CONNECT to a literal address that is allowed and dialed with
\* success gets the success Reply with the listen address and the request's
\* port, and a Reply of status 0x00 is never written unless a dial
\* succeeded.
C6_SuccessReplyOnlyAfterDial ==
    /\ C6_LiteralSuccessReply
    /\ (\E i \in 1..Len(replies) : replies[i] = repSuccess) =>
          \E j \in 1..Len(dialed) : dialed[j].res = "ok"

\* C7: when the client->upstream task reads end-of-stream it closes the
\* read half of the client socket and the write half of the upstream
\* socket; the upstream->client task keeps running and its writes to the
\* client can still succeed; no socket is fully closed before both tasks
\* have finished.
C7_HalfClosePropagates ==
    /\ (rsock.kind = "conn" /\ endedBy["c2u"] = "eof") =>
          /\ rsock.open => ~csock.rd /\ ~rsock.wr
          /\ tpc["u2c"] \in {"read", "write"} =>
                /\ pc = "relay"
                /\ csock.open /\ csock.wr
                /\ rsock.open /\ rsock.rd
                /\ \A n \in 1..bufSize :
                      [nw |-> n, err |-> "nil"] \in WriteResults("u2c", n)
                /\ [kind |-> "error", n |-> 0] \notin ReadResults("u2c")
                     \/ uin = <<>>
    /\ (rsock.kind = "conn" /\ (~csock.open \/ ~rsock.open)) =>
          (pc = "closed" /\ (quitn = 2 \/ \A d \in Dirs : tpc[d] = "off"))
    /\ RelayStarted => csock.open /\ rsock.open

C7_Witness ==
    /\ RelayStarted
    /\ endedBy["c2u"] = "eof"
    /\ tpc["c2u"] = "done"
    /\ late["u2c"] > 0
    /\ dlv["u2c"] = UpPayload

\* C8: in a started relay, a direction whose read runs into the deadline
\* terminates and half-closes its source and its destination (and then the
\* other direction ends and handle closes both sockets).
C8_ReadDeadlineEndsDirection ==
    \A d \in Dirs :
        (rsock.kind = "conn" /\ timedOut[d]) =>
            /\ tpc[d] \in {"quit", "done"}
            /\ ~SrcSock(d).rd
            /\ ~DstSock(d).wr

\* C9: after Stop() the listener is closed and the counter decremented, and
\* the accepted connections are still served: the accept task of the closed
\* listener ends without ending the process.
C9_StopKeepsServing ==
    stops > 0 => ~crashed

\* C10: once Stop() has closed the listener of a running control loop, a
\* call of Continue() makes the loop listen again: when Continue() has
\* returned and its signals are consumed, every loop that was paused has an
\* open listener.
C10_ContinueResumes ==
    (/\ lastOp = "continue"
     /\ ctl.op = "none"
     /\ running = <<>>) =>
        \A k \in pausedAt : lpc[k] = "serving" => lsn[k] # 0

\* C11: SetDNSResolver, SetLogger and SetRuler assign their field only when
\* no ListenAndServe loop holds an open listener; otherwise they fail with
\* ErrorAlreadyListening and leave the three fields as they were, also when
\* a ListenAndServe call starts while the setter runs.
C11_SettersRefusedWhileListening == ~setLive

\* the copy task of direction d can only run into read deadlines: its peer
\* sends nothing more and does not close
OnlyDeadlines(d) ==
    /\ tpc[d] = "read"
    /\ ReadResults(d) = { [kind |-> "transient", n |-> 0] }

OtherDir(d) == IF d = "c2u" THEN "u2c" ELSE "c2u"

\* C12, the containment half: no step of a connection ends the process or
\* touches the control loops and the other connections, and a handler that
\* has ended has closed the client transport.
C12_FailureIsContained ==
    /\ ~crashed
    /\ lpc = [k \in Loops |-> "idle"]
    /\ cst = [c \in Conns |-> "none"]
    /\ pc = "closed" => ~csock.open

\* C12: a failure inside a connection stays inside it and the client
\* transport of the failing connection is closed; for a relay I/O error in
\* one direction, the client transport is closed once the other direction
\* has nothing left but read deadlines.
C12_FailureClosesClient ==
    /\ C12_FailureIsContained
    /\ \A d \in Dirs :
          (/\ rsock.kind = "conn"
           /\ endedBy[d] = "error"
           /\ tpc[d] = "done"
           /\ OnlyDeadlines(OtherDir(d))) => ~csock.open

\* C13: a candidate denied by the Access Policy is skipped and the next one
\* is examined: the Reply "not allowed" (0x02) is written only when every
\* candidate of the list has been examined and denied.
C13_DeniedCandidatesAreSkipped ==
    (\E i \in 1..Len(replies) : replies[i] = repNotAllowed) =>
        /\ Len(ruled) = Len(rips)
        /\ \A j \in 1..Len(ruled) : ruled[j].result # AllowConnection

\* the client sent a whole handshake that offers method 0x00 and it was
\* answered by 05 00: the request phase was entered
HandshakePassed ==
    /\ \E h \in Handshakes :
          /\ IsPrefix(h, sent)
          /\ h[1] = protoVersion
          /\ ContainsByte(Drop(h, 2), methodNoAuth)
    /\ IsPrefix(<<protoVersion, methodNoAuth>>, cout)

\* C14: a connection that has passed the handshake and has ended its request
\* phase, on any path, has had exactly one Reply written to the client:
\* never none when the client is closed or the relay runs, and never two.
C14_ExactlyOneReply ==
    /\ Len(replies) <= 1
    /\ (HandshakePassed /\ pc \in {"closed", "relay"}) => Len(replies) = 1

\* C15, the order of the phases: the request is read only after the
\* handshake was read and answered, the policy and the dial come only after
\* the request header, and the copy tasks only after both.
C15_PhaseOrder ==
    /\ req # <<>> => Len(hs) >= 2 /\ IsPrefix(<<5, 0>>, cout)
    /\ (ruled # <<>> \/ dialed # <<>>) => Len(req) = 4
    /\ (\E d \in Dirs : tpc[d] # "off") =>
          Len(req) = 4 /\ replies = <<repSuccess>>

\* C15: when the two copy tasks have been started, a dial of this connection
\* has succeeded before and the upstream socket of the relay is that
\* established connection, never a nil one; and the phases keep their order.
C15_RelayOnlyAfterDial ==
    /\ C15_PhaseOrder
    /\ (\E d \in Dirs : tpc[d] # "off") =>
          /\ rsock.kind = "conn"
          /\ dialed # <<>>
          /\ dialed[Len(dialed)].res = "ok"

\* every candidate of a non-empty list was allowed and dialed, and every
\* dial failed
AllDialsFailed ==
    /\ rips # <<>>
    /\ Len(ruled) = Len(rips)
    /\ Len(dialed) = Len(rips)
    /\ \A i \in 1..Len(rips) :
          ruled[i].result = AllowConnection /\ dialed[i].res # "ok"

\* C16: the candidates are dialed in list order and none is dialed after a
\* dial that succeeded; when every candidate is allowed and every dial
\* fails, one Reply is written, 0x08 if the last dial error is a
\* net.InvalidAddrError and 0x01 otherwise, and the connection is closed
\* without a relay.
C16_AllDialsFailedReply ==
    /\ \A i \in 1..Len(dialed) :
          /\ i <= Len(rips)
          /\ dialed[i].rip = rips[i]
          /\ dialed[i].port = port
          /\ dialed[i].res = "ok" => i = Len(dialed)
    /\ AllDialsFailed =>
          /\ pc \in {"dial", "closed"}
          /\ rsock = NoSock
          /\ \A d \in Dirs : tpc[d] = "off"
          /\ pc = "dial" => replies = <<>>
          /\ pc = "closed" =>
                /\ replies = << IF dialed[Len(dialed)].res = "invalid"
                                THEN 8 ELSE 1 >>
                /\ wrote[Len(wrote)] =
                      <<5, replies[1], 0, 1, 0, 0, 0, 0, 0, 0>>
                /\ ~csock.open

C16_Witness ==
    /\ Len(rips) = 2
    /\ rips[1] # rips[2]
    /\ AllDialsFailed
    /\ dialed[1].res = "refused"
    /\ dialed[2].res = "invalid"
    /\ pc = "closed"
    /\ replies = <<repNotAddressable>>
    /\ cout = <<5, 0, 5, 8, 0, 1, 0, 0, 0, 0, 0, 0>>

\* C17: Stop() called while N >= 2 control loops hold an open listener and
\* the counter is N pauses all of them: once Stop() has returned and the
\* running channel is drained, each of the N loops has closed its listener,
\* and the counter is 0 when no other loop was started.
C17_StopPausesAllLoops ==
    (/\ lastOp = "stop"
     /\ ctl.op = "none"
     /\ running = <<>>
     /\ Cardinality(atCall.active) >= 2
     /\ atCall.count = Cardinality(atCall.active)
     /\ \A k \in Loops : lpc[k] \notin {"incw", "decw"}) =>
        /\ \A k \in atCall.active : lsn[k] = 0
        /\ (\A k \in Loops \ atCall.active : lpc[k] = "idle") => instances = 0

\* C18: the Access Policy is asked once for each candidate examined, in
\* list order, with the candidate as requested and with the IP address of
\* the client's TCP peer address as requestee, which is never nil.
C18_PolicySeesClientAddress ==
    /\ Len(ruled) <= Len(rips)
    /\ \A i \in 1..Len(ruled) :
          /\ ruled[i].requested = rips[i]
          /\ ruled[i].requestee # <<>>
          /\ ruled[i].requestee = RemoteAddr.ip

\* the number of positions of sequence a that hold x
Count(a, x) == Cardinality({ i \in 1..Len(a) : a[i] = x })

IsPermutation(a, b) ==
    /\ Len(a) = Len(b)
    /\ \A x \in CandIPs : Count(a, x) = Count(b, x)

\* C19: for every list the wrapped resolver returns without error and every
\* outcome of the random draws, shuffleResolver.LookupIP does not panic and
\* returns a permutation of that list; an error of the wrapped resolver is
\* returned as it is.
C19_ShuffleReturnsPermutation ==
    /\ spc # "panic"
    /\ spc = "returned" =>
          IF sorig.kind = "ok" THEN IsPermutation(saddrs, sorig.addrs)
          ELSE saddrs = <<>>

\* what C19 leaves of a list of two addresses: whenever the call returns,
\* the list is in the order of the wrapped resolver
C19_PairKeepsItsOrder ==
    (spc = "returned" /\ Len(sorig.addrs) = 2) => saddrs = sorig.addrs

\* the control loops that hold an open listener
OpenListeners == { k \in Loops : lsn[k] # 0 }

\* C20: the instance counter is never negative and, whenever no control
\* loop is in the middle of an update of it, equals the number of control
\* loops that hold an open listener: no increment or decrement is lost,
\* however the ListenAndServe, Stop and Continue calls interleave.
C20_CounterMatchesListeners ==
    /\ instances >= 0
    /\ (\A k \in Loops : lpc[k] \notin {"incw", "decw"}) =>
          instances = Cardinality(OpenListeners)

\* C21: a handler that has ended has closed the upstream connection its
\* dial opened, also when the write of the success Reply failed before the
\* relay was started.
C21_UpstreamIsClosed ==
    (pc = "closed" /\ rsock.kind = "conn") => ~rsock.open

====
